---- MODULE Spec2Model ----
(***************************************************************************)
(* A model of package uuid (sysoftheworld/uuid): RFC4122 / DCE1.1 UUID     *)
(* generation (NewV1 .. NewV5), the version/variant bit packing, the       *)
(* timestamp sources, the shared clock sequence guarded by the package     *)
(* mutex, and the string codec (String, FromString, FromBytes).            *)
(*                                                                         *)
(* Representation.  A byte is a number in 0..255.  A UUID is a sequence of *)
(* 16 bytes; Go index i is TLA+ index i+1.  A uint64/int64 is a sequence   *)
(* of 8 bytes, most significant first, so that 64-bit values keep their    *)
(* width.  A uint16 is a number in 0..65535.  A Go string is a sequence of *)
(* one-character strings.                                                  *)
(***************************************************************************)
EXTENDS Integers, Sequences, FiniteSets, TLC

VARIABLES
    mu,          \* sync.Mutex: 0 when unlocked, else the goroutine holding it
    timeSource,  \* the package's current timestamp source
    addr,        \* the 6-byte node identifier
    clockSeq,    \* the shared uint16 clock sequence
    now,         \* index into Clock of the reading time.Now() returns
    uid,         \* the numeric user id os/user reports (a uint64)
    pc,          \* per goroutine: position in its current call
    call,        \* per goroutine: the call in progress and its arguments
    uuid,        \* per goroutine: the local variable uuid of the call
    tmp,         \* per goroutine: the register holding clockSeq during clockSeq++
    ret,         \* per goroutine: what its last call returned
    cs0,         \* history: the value clockSeqInit() gave clockSeq
    ncalls,      \* history: calls begun, all of them and the time-based ones
    puts,        \* history: how many clock sequence values were written, and the last
    first,       \* history: an earlier return value kept for comparison
    inp,         \* pure-function runs: the argument drawn
    out          \* pure-function runs: the result

vars == <<mu, timeSource, addr, clockSeq, now, uid, pc, call, uuid, tmp, ret,
          cs0, ncalls, puts, first, inp, out>>

--------------------------------------------------------------------------
(* Bytes and bit operations                                               *)

Byte == 0 .. 255

RECURSIVE BitOp(_, _, _, _)
\* Bitwise combination of the low n bits of a and b; op is "and", "or" or "xor".
BitOp(op, a, b, n) ==
    IF n = 0 THEN 0
    ELSE LET x == a % 2
             y == b % 2
             bit == CASE op = "and" -> IF x = 1 /\ y = 1 THEN 1 ELSE 0
                      [] op = "or"  -> IF x = 1 \/ y = 1 THEN 1 ELSE 0
                      [] OTHER      -> IF x # y THEN 1 ELSE 0
         IN  bit + 2 * BitOp(op, a \div 2, b \div 2, n - 1)

And8(a, b) == BitOp("and", a, b, 8)
Or8(a, b)  == BitOp("or", a, b, 8)
Xor8(a, b) == BitOp("xor", a, b, 8)

\* v << k on a Go byte: the bits shifted out of the byte are lost.
Shl8(v, k) == (v * (2 ^ k)) % 256

\* The zero value of a byte array of length n.
Zeros(n) == [i \in 1 .. n |-> 0]

\* copy(dst[at:], src): overwrite dst from Go index at with as much of src as fits.
Copy(dst, at, src) ==
    [i \in 1 .. Len(dst) |->
        IF i > at /\ i - at <= Len(src) THEN src[i - at] ELSE dst[i]]

\* binary.BigEndian.PutUint16(b[at:], v)
PutUint16(b, at, v) == Copy(b, at, <<v \div 256, v % 256>>)

--------------------------------------------------------------------------
(* Constants of the package                                               *)

uuidSize == 16
rfc4122 == 4
future == 7

\* 122192928000000000 as an int64
epochOffset == <<1, 178, 29, 210, 19, 129, 64, 0>>

--------------------------------------------------------------------------
(* Version / variant encoder and timestamp layout                         *)

\* version as in the first revision of the package: byte 6 is rebuilt from v alone.
versionFromArg(u, v) == [u EXCEPT ![7] = Or8(And8(v, 15), Shl8(v, 4))]

\* func (u *UUID) version(v byte): u[6] = (u[6] & 0x0F) | (v << 4)
version(u, v) == [u EXCEPT ![7] = Or8(And8(u[7], 15), Shl8(v, 4))]

\* variant as in the first revision of the package: byte 8 is rebuilt from v alone.
variantFromArg(u, v) == [u EXCEPT ![9] = Or8(And8(v, 191), Shl8(v, 4))]

\* func (u *UUID) variant(v byte): mask by variant, then u[8] = (u[8] & mask) | (v << 5)
variant(u, v) ==
    LET mask == CASE v = rfc4122 -> 63
                  [] v = future  -> 31
                  [] OTHER       -> 63
    IN  [u EXCEPT ![9] = Or8(And8(u[9], mask), Shl8(v, 5))]

\* insertTimestamp(b, t): time_low, time_mid, time_hi, each big-endian.
\* t[1] is the most significant byte of t, t[8] the least.
insertTimestamp(b, t) ==
    Copy(Copy(Copy(b, 0, <<t[5], t[6], t[7], t[8]>>), 4, <<t[3], t[4]>>),
         6, <<t[1], t[2]>>)

--------------------------------------------------------------------------
(* 64-bit arithmetic on 8-byte big-endian values                          *)

RECURSIVE AddCarry(_, _, _, _)
\* Bytes i..1 of a + b + carry, the carry out of byte 1 dropped (mod 2^64).
AddCarry(a, b, i, carry) ==
    IF i = 0 THEN <<>>
    ELSE LET s == a[i] + b[i] + carry
         IN  Append(AddCarry(a, b, i - 1, s \div 256), s % 256)

Add64(a, b) == AddCarry(a, b, 8, 0)

RECURSIVE DivRem(_, _, _, _)
\* Long division of a by the small number d, from byte i on, with remainder r.
DivRem(a, d, i, r) ==
    IF i > Len(a) THEN <<>>
    ELSE LET x == r * 256 + a[i]
         IN  <<x \div d>> \o DivRem(a, d, i + 1, x % d)

Div64(a, d) == DivRem(a, d, 1, 0)

Or64(a, b) == [i \in 1 .. 8 |-> Or8(a[i], b[i])]
Xor64(a, b) == [i \in 1 .. 8 |-> Xor8(a[i], b[i])]

--------------------------------------------------------------------------
(* String codec                                                           *)

HexLower == <<"0", "1", "2", "3", "4", "5", "6", "7",
              "8", "9", "a", "b", "c", "d", "e", "f">>
HexUpper == <<"0", "1", "2", "3", "4", "5", "6", "7",
              "8", "9", "A", "B", "C", "D", "E", "F">>

LowerHexDigits == {HexLower[i] : i \in 1 .. 16}
HexDigits == LowerHexDigits \cup {HexUpper[i] : i \in 1 .. 16}

\* The value of each hex digit, of either case.
HexValue ==
    [c \in HexDigits |->
        IF c \in LowerHexDigits
        THEN (CHOOSE i \in 1 .. 16 : HexLower[i] = c) - 1
        ELSE (CHOOSE i \in 1 .. 16 : HexUpper[i] = c) - 1]

\* hex.fromHexChar: the value of a hex digit of either case, or -1.
fromHexChar(c) == IF c \in HexDigits THEN HexValue[c] ELSE -1

\* an encoder that writes upper-case digits (%X for %x)
EncodeToStringUpper(b) ==
    [i \in 1 .. 2 * Len(b) |->
        IF i % 2 = 1 THEN HexUpper[(b[(i + 1) \div 2] \div 16) + 1]
                     ELSE HexUpper[(b[i \div 2] % 16) + 1]]

\* hex.EncodeToString(b): two lower-case digits per byte.
EncodeToString(b) ==
    [i \in 1 .. 2 * Len(b) |->
        IF i % 2 = 1 THEN HexLower[(b[(i + 1) \div 2] \div 16) + 1]
                     ELSE HexLower[(b[i \div 2] % 16) + 1]]

\* hex.DecodeString(s): the bytes, or the error of the first bad digit, or
\* ErrLength for an odd number of digits.
DecodeString(s) ==
    LET n == Len(s)
        badAt(i) == s[i] \notin HexDigits
        pairs == n \div 2
    IN  \* the digits the decoding loop reads before the odd tail
        IF \E i \in 1 .. 2 * pairs : badAt(i)
        THEN [b |-> <<>>, err |-> "hex.InvalidByteError"]
        ELSE IF n % 2 = 1
        THEN [b |-> <<>>,
              err |-> IF badAt(n) THEN "hex.InvalidByteError" ELSE "hex.ErrLength"]
        ELSE [b |-> [i \in 1 .. pairs |->
                        16 * HexValue[s[2 * i - 1]] + HexValue[s[2 * i]]],
              err |-> "nil"]

\* strings.Replace(s, "-", "", -1)
NotDash(c) == c # "-"
RemoveDashes(s) == SelectSeq(s, NotDash)

\* func (u *UUID) String(): hex of the bytes in groups 4-2-2-2-6, joined by "-".
String(u) ==
    EncodeToString(SubSeq(u, 1, 4)) \o <<"-">> \o
    EncodeToString(SubSeq(u, 5, 6)) \o <<"-">> \o
    EncodeToString(SubSeq(u, 7, 8)) \o <<"-">> \o
    EncodeToString(SubSeq(u, 9, 10)) \o <<"-">> \o
    EncodeToString(SubSeq(u, 11, 16))

\* uuidRegex.MatchString(s) for
\* ^[0-9a-f]{8}-[0-9a-f]{4}-[1-5][0-9a-f]{3}-[89ab][0-9a-f]{3}-[0-9a-f]{12}$
\* The characters the pattern admits at each of its 36 positions.
uuidRegex ==
    [i \in 1 .. 36 |->
        CASE i \in {9, 14, 19, 24} -> {"-"}
          [] i = 15 -> {"1", "2", "3", "4", "5"}
          [] i = 20 -> {"8", "9", "a", "b"}
          [] OTHER  -> LowerHexDigits]

uuidRegexMatch(s) ==
    /\ Len(s) = 36
    /\ \A i \in 1 .. 36 : s[i] \in uuidRegex[i]

\* a validation that forgets the variant digit
FromBytesVersionOnly(b) ==
    IF Len(b) # uuidSize
    THEN [uuid |-> Zeros(uuidSize), err |-> "ErrUUIDSize"]
    ELSE IF String(b)[15] \notin {"1", "2", "3", "4", "5"}
    THEN [uuid |-> b, err |-> "ErrUUIDFormat"]
    ELSE [uuid |-> b, err |-> "nil"]

\* func FromBytes(b []byte) (UUID, error)
FromBytes(b) ==
    IF Len(b) # uuidSize
    THEN [uuid |-> Zeros(uuidSize), err |-> "ErrUUIDSize"]
    ELSE IF ~uuidRegexMatch(String(b))
    THEN [uuid |-> b, err |-> "ErrUUIDFormat"]
    ELSE [uuid |-> b, err |-> "nil"]

\* func FromString(s string) (UUID, error)
FromString(s) ==
    LET d == DecodeString(RemoveDashes(s))
    IN  IF d.err # "nil"
        THEN [uuid |-> Zeros(uuidSize), err |-> d.err]
        ELSE FromBytes(d.b)

--------------------------------------------------------------------------
(* Namespaces (namespace.go)                                              *)

DNSNamespace ==
    FromString(<<"6", "b", "a", "7", "b", "8", "1", "0", "-", "9", "d", "a", "d",
                 "-", "1", "1", "d", "1", "-", "8", "0", "b", "4", "-", "0", "0",
                 "c", "0", "4", "f", "d", "4", "3", "0", "c", "8">>).uuid
URLNamespace ==
    FromString(<<"6", "b", "a", "7", "b", "8", "1", "1", "-", "9", "d", "a", "d",
                 "-", "1", "1", "d", "1", "-", "8", "0", "b", "4", "-", "0", "0",
                 "c", "0", "4", "f", "d", "4", "3", "0", "c", "8">>).uuid

--------------------------------------------------------------------------
(* Digests.  crypto/md5 and crypto/sha1 are library code; their values on  *)
(* the inputs the model draws are tabulated.                               *)

\* The (namespace, []byte(name)) pairs, for the names "go" and "a", the goroutines pass to NewV3 and NewV5.
NameArgs == {<<DNSNamespace, <<103, 111>>>>, <<URLNamespace, <<97>>>>}

\* md5: h.Write(namespace); h.Write(name); h.Sum(nil)
md5Sum(ns, name) ==
    CASE ns = DNSNamespace /\ name = <<97>> ->
           <<76, 16, 77, 208, 72, 33, 128, 213, 28, 227, 14, 122, 31, 139, 124, 13>>
      [] ns = DNSNamespace /\ name = <<103, 111>> ->
           <<162, 108, 33, 227, 97, 32, 51, 156, 151, 58, 124, 83, 142, 153, 67, 12>>
      [] ns = URLNamespace /\ name = <<97>> ->
           <<51, 131, 142, 147, 99, 188, 199, 50, 191, 158, 182, 141, 151, 11, 121, 194>>
      [] ns = URLNamespace /\ name = <<103, 111>> ->
           <<212, 64, 16, 231, 218, 112, 228, 153, 143, 110, 77, 248, 89, 6, 56, 218>>

\* sha1: h.Write(namespace); h.Write(name); h.Sum(nil)  (20 bytes)
sha1Sum(ns, name) ==
    CASE ns = DNSNamespace /\ name = <<97>> ->
           <<79, 63, 40, 152, 105, 227, 74, 13, 194, 10, 196, 232, 121, 135, 219, 206,
             106, 112, 23, 47>>
      [] ns = DNSNamespace /\ name = <<103, 111>> ->
           <<202, 154, 147, 140, 39, 254, 247, 246, 149, 144, 131, 123, 68, 255, 228, 72,
             212, 68, 224, 120>>
      [] ns = URLNamespace /\ name = <<97>> ->
           <<225, 64, 116, 121, 49, 54, 198, 192, 217, 8, 187, 2, 251, 3, 57, 226,
             25, 80, 187, 228>>
      [] ns = URLNamespace /\ name = <<103, 111>> ->
           <<84, 11, 3, 222, 46, 21, 142, 25, 96, 226, 7, 80, 77, 253, 210, 47,
             104, 201, 40, 193>>

--------------------------------------------------------------------------
(* Environment: the clock, the user id, the random source                 *)

\* Bounds of the model
NProcs == 2        \* goroutines calling the package concurrently
MaxCalls == 3      \* calls begun in one run of the concurrent specification
MaxTicks == 1      \* readings the clock can advance through
MaxSeqCalls == 16385  \* calls in one run of the sequential specification
MaxStampArg == 7   \* largest argument passed to version and variant
MaxBytesLen == 17  \* longest byte slice passed to FromBytes

Procs == 1 .. NProcs

\* A number below 2^31 as a uint64.
U64(n) == <<0, 0, 0, 0, (n \div 16777216) % 256, (n \div 65536) % 256,
            (n \div 256) % 256, n % 256>>

\* time.Now().UnixNano() at 2016-11-13T01:20:00Z
UnixBase == <<20, 134, 118, 169, 246, 205, 128, 0>>

\* The k-th reading of the clock, 163 ns after the one before; two calls that
\* read the clock between two advances get the same 100-ns interval.
Clock(k) == Add64(UnixBase, U64(163 * k))

\* The hosts the process may run on: the node identifier hardwareAddr() returns
\* (an interface's address, or random bytes) and the uid os/user reports.
Hosts == {[addr |-> <<0, 192, 79, 212, 48, 200>>, uid |-> U64(0)],
          [addr |-> <<255, 17, 34, 51, 68, 85>>, uid |-> U64(1000)]}

\* The values clockSeqInit() may return; their successors cover every value
\* of the top two bits of the clock sequence, and the wrap to 0.
ClockSeqInits == {16383, 49151, 65535}

\* The values rand.Int63() may return (the top bit is clear).
Rand63s == {<<127, 255, 255, 255, 255, 255, 255, 255>>,
            <<18, 52, 86, 120, 154, 188, 222, 240>>}

\* The bytes randomBytes(uuid[9:]) may write.
RandFills == {<<0, 0, 0, 0, 0, 0, 0>>, <<255, 171, 205, 239, 1, 35, 69>>}

--------------------------------------------------------------------------
(* Timestamp sources (timestamp.go)                                       *)

\* getUUIDEpochTime(): uint64((time.Now().UnixNano() + epochOffset) / 100)
getUUIDEpochTime(unixNano) == Div64(Add64(unixNano, epochOffset), 100)

\* uuidTime.timestamp()
uuidTimeTimestamp(unixNano) == getUUIDEpochTime(unixNano)

\* uuidDCE.timestamp(): t ^ (0xFFFFFFFF) | uint64(uId); ^ and | associate to the left
uuidDCETimestamp(unixNano, u) ==
    Or64(Xor64(getUUIDEpochTime(unixNano), <<0, 0, 0, 0, 255, 255, 255, 255>>), u)

\* uuidRand.timestamp(): uint64(rand.Int63())
uuidRandTimestamp(r) == r

\* timeSource.timestamp(): dispatch on the source the variable holds.
timestamp(src, unixNano, u, r) ==
    CASE src = "uuidTime" -> uuidTimeTimestamp(unixNano)
      [] src = "uuidDCE"  -> uuidDCETimestamp(unixNano, u)
      [] src = "uuidRand" -> uuidRandTimestamp(r)

\* The source each constructor installs, and the version it stamps.
SourceOf(kind) ==
    CASE kind = "NewV1" -> "uuidTime"
      [] kind = "NewV2" -> "uuidDCE"
      [] kind = "NewV4" -> "uuidRand"

VersionOf(kind) ==
    CASE kind = "NewV1" -> 1
      [] kind = "NewV2" -> 2
      [] kind = "NewV3" -> 3
      [] kind = "NewV4" -> 4
      [] kind = "NewV5" -> 5

--------------------------------------------------------------------------
(* The constructors, step by step.  A step is one access to a package      *)
(* variable together with the local computation that follows it.          *)

NoCall == [kind |-> "none"]
NoRet == [kind |-> "none"]
NoInput == [kind |-> "none"]

TimeKinds == {"NewV1", "NewV2"}
LockKinds == {"NewV1", "NewV2", "NewV4"}
NameKinds == {"NewV3", "NewV5"}

\* The calls a goroutine may make.
Calls(kinds) ==
    {[kind |-> k] : k \in kinds \cap LockKinds}
    \cup {[kind |-> k, namespace |-> a[1], name |-> a[2]] :
             k \in kinds \cap NameKinds, a \in NameArgs}

\* The positions at which a goroutine is between mu.Lock() and mu.Unlock().
Locked == {"setSource", "timestamp", "load", "store", "put", "fill", "unlock"}

\* an entry that sends every constructor, name-based ones too, to mu.Lock()
BeginAllLocked(p, kinds, budget) ==
    /\ pc[p] = "idle"
    /\ ncalls.all < budget
    /\ \E c \in Calls(kinds) :
          /\ call' = [call EXCEPT ![p] = c]
          /\ pc' = [pc EXCEPT ![p] = "lock"]
          /\ ncalls' = [all |-> ncalls.all + 1,
                        time |-> ncalls.time + (IF c.kind \in TimeKinds THEN 1 ELSE 0)]
    /\ UNCHANGED <<mu, timeSource, addr, clockSeq, now, uid, uuid, tmp, ret, cs0,
                   puts, first, inp, out>>

\* Entry of a constructor: var uuid UUID
Begin(p, kinds, budget) ==
    /\ pc[p] = "idle"
    /\ ncalls.all < budget
    /\ \E c \in Calls(kinds) :
          /\ call' = [call EXCEPT ![p] = c]
          /\ pc' = [pc EXCEPT ![p] = IF c.kind \in LockKinds THEN "lock" ELSE "hash"]
          /\ ncalls' = [all |-> ncalls.all + 1,
                        time |-> ncalls.time + (IF c.kind \in TimeKinds THEN 1 ELSE 0)]
    /\ UNCHANGED <<mu, timeSource, addr, clockSeq, now, uid, uuid, tmp, ret, cs0,
                   puts, first, inp, out>>

\* a Lock that does not wait for the holder
LockNoWait(p) ==
    /\ pc[p] = "lock"
    /\ mu' = p
    /\ pc' = [pc EXCEPT ![p] = "setSource"]
    /\ UNCHANGED <<timeSource, addr, clockSeq, now, uid, call, uuid, tmp, ret, cs0,
                   ncalls, puts, first, inp, out>>

\* mu.Lock(): blocks while another goroutine holds the mutex
Lock(p) ==
    /\ pc[p] = "lock"
    /\ mu = 0
    /\ mu' = p
    /\ pc' = [pc EXCEPT ![p] = "setSource"]
    /\ UNCHANGED <<timeSource, addr, clockSeq, now, uid, call, uuid, tmp, ret, cs0,
                   ncalls, puts, first, inp, out>>

\* timeSource = &uuidTime{} / &uuidDCE{} / &uuidRand{}
SetSource(p) ==
    /\ pc[p] = "setSource"
    /\ timeSource' = SourceOf(call[p].kind)
    /\ pc' = [pc EXCEPT ![p] = "timestamp"]
    /\ UNCHANGED <<mu, addr, clockSeq, now, uid, call, uuid, tmp, ret, cs0, ncalls,
                   puts, first, inp, out>>

\* insertTimestamp(uuid[:], timeSource.timestamp()); uuid.version(k)
StampTime(u, t, k) == version(insertTimestamp(u, t), k)

Timestamp(p) ==
    /\ pc[p] = "timestamp"
    /\ \E r \in (IF timeSource = "uuidRand" THEN Rand63s ELSE {U64(0)}) :
          uuid' = [uuid EXCEPT ![p] =
                      StampTime(uuid[p], timestamp(timeSource, Clock(now), uid, r),
                                VersionOf(call[p].kind))]
    /\ pc' = [pc EXCEPT ![p] = IF call[p].kind = "NewV4" THEN "fill" ELSE "load"]
    /\ UNCHANGED <<mu, timeSource, addr, clockSeq, now, uid, call, tmp, ret, cs0,
                   ncalls, puts, first, inp, out>>

\* clockSeq++ : the load
Load(p) ==
    /\ pc[p] = "load"
    /\ tmp' = [tmp EXCEPT ![p] = clockSeq]
    /\ pc' = [pc EXCEPT ![p] = "store"]
    /\ UNCHANGED <<mu, timeSource, addr, clockSeq, now, uid, call, uuid, ret, cs0,
                   ncalls, puts, first, inp, out>>

\* clockSeq++ : the store, wrapping at 2^16
Store(p) ==
    /\ pc[p] = "store"
    /\ clockSeq' = (tmp[p] + 1) % 65536
    /\ pc' = [pc EXCEPT ![p] = "put"]
    /\ UNCHANGED <<mu, timeSource, addr, now, uid, call, uuid, tmp, ret, cs0, ncalls,
                   puts, first, inp, out>>

\* the first revision's order: the variant is stamped before the clock sequence
StampSeqVariantFirst(u, cs, a) ==
    Copy(PutUint16(variant(u, rfc4122), 8, cs), 10, a)

\* binary.BigEndian.PutUint16(uuid[8:], clockSeq); uuid.variant(rfc4122);
\* copy(uuid[10:], addr[:])
StampSeq(u, cs, a) == Copy(variant(PutUint16(u, 8, cs), rfc4122), 10, a)

Put(p) ==
    /\ pc[p] = "put"
    /\ uuid' = [uuid EXCEPT ![p] = StampSeq(uuid[p], clockSeq, addr)]
    /\ puts' = [n |-> puts.n + 1, last |-> clockSeq]
    /\ pc' = [pc EXCEPT ![p] = "unlock"]
    /\ UNCHANGED <<mu, timeSource, addr, clockSeq, now, uid, call, tmp, ret, cs0,
                   ncalls, first, inp, out>>

\* NewV4: uuid.variant(rfc4122); randomBytes(uuid[9:])
StampRandom(u, fill) == Copy(variant(u, rfc4122), 9, fill)

Fill(p) ==
    /\ pc[p] = "fill"
    /\ \E f \in RandFills : uuid' = [uuid EXCEPT ![p] = StampRandom(uuid[p], f)]
    /\ pc' = [pc EXCEPT ![p] = "unlock"]
    /\ UNCHANGED <<mu, timeSource, addr, clockSeq, now, uid, call, tmp, ret, cs0,
                   ncalls, puts, first, inp, out>>

\* return uuid, then the deferred mu.Unlock()
Unlock(p) ==
    /\ pc[p] = "unlock"
    /\ ret' = [ret EXCEPT ![p] = [kind |-> call[p].kind, uuid |-> uuid[p],
                                  err |-> "nil", call |-> call[p]]]
    /\ mu' = 0
    /\ pc' = [pc EXCEPT ![p] = "idle"]
    /\ call' = [call EXCEPT ![p] = NoCall]
    /\ uuid' = [uuid EXCEPT ![p] = Zeros(uuidSize)]
    /\ tmp' = [tmp EXCEPT ![p] = 0]
    /\ UNCHANGED <<timeSource, addr, clockSeq, now, uid, cs0, ncalls, puts, first,
                   inp, out>>

\* NewV3 / NewV5: copy(uuid[:], h.Sum(nil)) after writing namespace and name
HashName(u, kind, ns, name) ==
    Copy(u, 0, IF kind = "NewV3" THEN md5Sum(ns, name) ELSE sha1Sum(ns, name))

Hash(p) ==
    /\ pc[p] = "hash"
    /\ uuid' = [uuid EXCEPT ![p] =
                   HashName(uuid[p], call[p].kind, call[p].namespace, call[p].name)]
    /\ pc' = [pc EXCEPT ![p] = "stamp"]
    /\ UNCHANGED <<mu, timeSource, addr, clockSeq, now, uid, call, tmp, ret, cs0,
                   ncalls, puts, first, inp, out>>

\* a name-based constructor that also writes the clock sequence, as NewV1 does
StampNameWithClockSeq(u, k) ==
    variant(PutUint16(version(u, k), 8, clockSeq), rfc4122)

\* uuid.version(3 or 5); uuid.variant(rfc4122)
StampName(u, k) == variant(version(u, k), rfc4122)

\* NewV3 / NewV5: stamp and return uuid, nil
Stamp(p) ==
    /\ pc[p] = "stamp"
    /\ LET u == StampName(uuid[p], VersionOf(call[p].kind))
       IN  /\ uuid' = [uuid EXCEPT ![p] = Zeros(uuidSize)]
           /\ ret' = [ret EXCEPT ![p] = [kind |-> call[p].kind, uuid |-> u,
                                         err |-> "nil", call |-> call[p]]]
    /\ pc' = [pc EXCEPT ![p] = "idle"]
    /\ call' = [call EXCEPT ![p] = NoCall]
    /\ UNCHANGED <<mu, timeSource, addr, clockSeq, now, uid, tmp, cs0, ncalls, puts,
                   first, inp, out>>

\* The clock advances to its next reading.
Tick ==
    /\ now < MaxTicks
    /\ now' = now + 1
    /\ UNCHANGED <<mu, timeSource, addr, clockSeq, uid, pc, call, uuid, tmp, ret, cs0,
                   ncalls, puts, first, inp, out>>

\* The package after init(): clockSeq = clockSeqInit(), addr = hardwareAddr(),
\* the mutex unlocked, timeSource nil, no call in progress.
Init ==
    /\ mu = 0
    /\ timeSource = "nil"
    /\ \E h \in Hosts : addr = h.addr /\ uid = h.uid
    /\ clockSeq \in ClockSeqInits
    /\ cs0 = clockSeq
    /\ now = 0
    /\ pc = [p \in Procs |-> "idle"]
    /\ call = [p \in Procs |-> NoCall]
    /\ uuid = [p \in Procs |-> Zeros(uuidSize)]
    /\ tmp = [p \in Procs |-> 0]
    /\ ret = [p \in Procs |-> NoRet]
    /\ ncalls = [all |-> 0, time |-> 0]
    /\ puts = [n |-> 0, last |-> clockSeq]
    /\ first = NoRet
    /\ inp = NoInput
    /\ out = NoRet

AllKinds == {"NewV1", "NewV2", "NewV3", "NewV4", "NewV5"}

Next ==
    \/ \E p \in Procs : Begin(p, AllKinds, MaxCalls)
    \/ \E p \in Procs : Lock(p)
    \/ \E p \in Procs : SetSource(p)
    \/ \E p \in Procs : Timestamp(p)
    \/ \E p \in Procs : Load(p)
    \/ \E p \in Procs : Store(p)
    \/ \E p \in Procs : Put(p)
    \/ \E p \in Procs : Fill(p)
    \/ \E p \in Procs : Unlock(p)
    \/ \E p \in Procs : Hash(p)
    \/ \E p \in Procs : Stamp(p)
    \/ Tick

Spec == Init /\ [][Next]_vars

--------------------------------------------------------------------------
(* One goroutine calling the time-based constructors in sequence: each     *)
(* call runs from mu.Lock() to the deferred mu.Unlock() as one step.       *)

NewTimeBased(kind) ==
    /\ ncalls.all < MaxSeqCalls
    /\ first = NoRet \/ first.kind = kind
    /\ LET t == timestamp(SourceOf(kind), Clock(now), uid, U64(0))
           cs == (clockSeq + 1) % 65536
           u == StampSeq(StampTime(Zeros(uuidSize), t, VersionOf(kind)), cs, addr)
           r == [kind |-> kind, uuid |-> u, err |-> "nil", n |-> ncalls.all + 1]
       IN  /\ timeSource' = SourceOf(kind)
           /\ clockSeq' = cs
           /\ puts' = [n |-> puts.n + 1, last |-> cs]
           /\ ret' = [ret EXCEPT ![1] = r]
           /\ first' = IF first = NoRet THEN r ELSE first
    /\ ncalls' = [all |-> ncalls.all + 1, time |-> ncalls.time + 1]
    /\ UNCHANGED <<mu, addr, now, uid, pc, call, uuid, tmp, cs0, inp, out>>

NewV1 == NewTimeBased("NewV1")
NewV2 == NewTimeBased("NewV2")

\* A process whose clock sequence starts one short of the wrap.
InitSeq == Init /\ clockSeq = 65535

NextSeq == NewV1 \/ NewV2 \/ Tick

SpecSeq == InitSeq /\ [][NextSeq]_vars

--------------------------------------------------------------------------
(* The pure functions, each applied once to an argument drawn at the start *)

\* A buffer whose byte 6 is b, byte 8 is 255 - b, and byte i is f * i otherwise.
Buffer(b, f) ==
    [i \in 1 .. uuidSize |->
        IF i = 7 THEN b ELSE IF i = 9 THEN 255 - b ELSE (f * i) % 256]

\* A slice of n bytes with bytes 6 and 8 given and byte i equal to f otherwise.
Slice(n, b6, b8, f) ==
    [i \in 1 .. n |-> IF i = 7 THEN b6 ELSE IF i = 9 THEN b8 ELSE f]

\* Every version nibble and every value of the variant bits, over two fillers.
Byte6s == {16 * h + l : h \in 0 .. 15, l \in {0, 13}}
Byte8s == {64 * t + r : t \in 0 .. 3, r \in {0, 21, 63}}

\* Ways a caller may hand a UUID's text to FromString.
Mangle(s, how) ==
    CASE how = "canonical" -> s
      [] how = "noDashes"  -> RemoveDashes(s)
      [] how = "upperCase" ->
           [i \in 1 .. Len(s) |->
               IF fromHexChar(s[i]) = -1 THEN s[i] ELSE HexUpper[fromHexChar(s[i]) + 1]]
      [] how = "tenBytes"  -> SubSeq(s, 1, 23)
      [] how = "oddDigits" -> SubSeq(s, 1, 35)
      [] how = "extraByte" -> s \o <<"0", "0">>
      [] how = "badDigit"  -> [s EXCEPT ![36] = "g"]
      [] how = "badOddTail" -> s \o <<"z">>
      [] how = "empty"     -> <<>>

Mangles == {"canonical", "noDashes", "upperCase", "tenBytes", "oddDigits",
            "extraByte", "badDigit", "badOddTail", "empty"}

\* Readings of time.Now().UnixNano(), none before 1970: the epoch and the
\* nanoseconds around the first 100-ns boundaries, and the clock's readings.
UnixNanos ==
    {U64(n) : n \in {0, 1, 99, 100, 101, 199, 200, 2147483647}}
    \cup {Clock(k) : k \in 0 .. MaxTicks}

PureInputs ==
    {[kind |-> k, u |-> Buffer(b, f), v |-> v] :
        k \in {"version", "variant"}, b \in Byte, f \in {0, 17, 255},
        v \in 0 .. MaxStampArg}
    \cup {[kind |-> "FromBytes", b |-> Slice(n, b6, b8, f)] :
             n \in 0 .. MaxBytesLen, b6 \in Byte6s, b8 \in Byte8s, f \in {0, 171}}
    \cup {[kind |-> "FromString", s |-> Mangle(String(Slice(uuidSize, b6, b8, 171)), m)] :
             b6 \in {16 * h + 13 : h \in 0 .. 15}, b8 \in {64 * t + 21 : t \in 0 .. 3},
             m \in Mangles}
    \cup {[kind |-> "uuidTime", n |-> n] : n \in UnixNanos}

CallVersion ==
    /\ inp.kind = "version" /\ out = NoRet
    /\ out' = [kind |-> "version", u |-> version(inp.u, inp.v)]
    /\ UNCHANGED <<mu, timeSource, addr, clockSeq, now, uid, pc, call, uuid, tmp, ret,
                   cs0, ncalls, puts, first, inp>>

CallVariant ==
    /\ inp.kind = "variant" /\ out = NoRet
    /\ out' = [kind |-> "variant", u |-> variant(inp.u, inp.v)]
    /\ UNCHANGED <<mu, timeSource, addr, clockSeq, now, uid, pc, call, uuid, tmp, ret,
                   cs0, ncalls, puts, first, inp>>

CallFromBytes ==
    /\ inp.kind = "FromBytes" /\ out = NoRet
    /\ LET r == FromBytes(inp.b)
       IN  out' = [kind |-> "FromBytes", uuid |-> r.uuid, err |-> r.err]
    /\ UNCHANGED <<mu, timeSource, addr, clockSeq, now, uid, pc, call, uuid, tmp, ret,
                   cs0, ncalls, puts, first, inp>>

CallFromString ==
    /\ inp.kind = "FromString" /\ out = NoRet
    /\ LET r == FromString(inp.s)
       IN  out' = [kind |-> "FromString", uuid |-> r.uuid, err |-> r.err]
    /\ UNCHANGED <<mu, timeSource, addr, clockSeq, now, uid, pc, call, uuid, tmp, ret,
                   cs0, ncalls, puts, first, inp>>

\* (&uuidTime{}).timestamp() with time.Now().UnixNano() reading inp.n
CallUuidTime ==
    /\ inp.kind = "uuidTime" /\ out = NoRet
    /\ out' = [kind |-> "uuidTime", t |-> uuidTimeTimestamp(inp.n)]
    /\ UNCHANGED <<mu, timeSource, addr, clockSeq, now, uid, pc, call, uuid, tmp, ret,
                   cs0, ncalls, puts, first, inp>>

InitPure ==
    /\ mu = 0
    /\ timeSource = "nil"
    /\ addr = Zeros(6)
    /\ clockSeq = 0
    /\ cs0 = 0
    /\ now = 0
    /\ uid = U64(0)
    /\ pc = [p \in Procs |-> "idle"]
    /\ call = [p \in Procs |-> NoCall]
    /\ uuid = [p \in Procs |-> Zeros(uuidSize)]
    /\ tmp = [p \in Procs |-> 0]
    /\ ret = [p \in Procs |-> NoRet]
    /\ ncalls = [all |-> 0, time |-> 0]
    /\ puts = [n |-> 0, last |-> 0]
    /\ first = NoRet
    /\ inp \in PureInputs
    /\ out = NoRet

NextPure ==
    CallVersion \/ CallVariant \/ CallFromBytes \/ CallFromString \/ CallUuidTime

SpecPure == InitPure /\ [][NextPure]_vars

--------------------------------------------------------------------------
(* Properties                                                             *)

Returned(p) == ret[p] # NoRet

\* The version nibble of u is k and its variant bits are 10.
WellFormed(u, k) ==
    /\ u[7] \div 16 = k
    /\ u[9] \div 64 = 2
    /\ uuidRegexMatch(String(u))

\* C1: every UUID a constructor for version k returns has k in the top nibble
\* of byte 6 and 10 in the top two bits of byte 8, and its String() matches
\* the canonical pattern.
C1_WellFormed ==
    \A p \in Procs :
        Returned(p) => WellFormed(ret[p].uuid, VersionOf(ret[p].kind))

\* A time-based UUID written after the clock sequence wrapped, next to a
\* name-based or random one.
C1_Witness ==
    \E p, q \in Procs :
        /\ Returned(p) /\ ret[p].kind \in TimeKinds
        /\ clockSeq < cs0
        /\ Returned(q) /\ ret[q].kind \in {"NewV3", "NewV4", "NewV5"}

\* C2: the clock sequence is read and written only by the goroutine holding
\* the mutex; the k-th time-based call writes (initial + k) mod 2^16 into
\* bytes 8-9 of its UUID (under the variant bits); and when no call is in
\* progress the counter equals (initial + number of time-based calls) mod 2^16.
C2_ClockSeqExact ==
    /\ \A p \in Procs : pc[p] \in Locked => mu = p
    /\ puts.last = (cs0 + puts.n) % 65536
    /\ \A p \in Procs :
          pc[p] = "unlock" /\ call[p].kind \in TimeKinds =>
              /\ uuid[p][9] = 128 + ((puts.last \div 256) % 64)
              /\ uuid[p][10] = puts.last % 256
    /\ (\A p \in Procs : pc[p] = "idle") =>
          /\ puts.n = ncalls.time
          /\ clockSeq = (cs0 + ncalls.time) % 65536

\* The second of two time-based calls has written its value, past the wrap,
\* while another time-based call waits for the mutex.
C2_Witness ==
    \E p, q \in Procs :
        /\ p # q
        /\ pc[p] = "unlock" /\ call[p].kind \in TimeKinds
        /\ pc[q] = "lock" /\ call[q].kind \in TimeKinds
        /\ puts.n = 2 /\ clockSeq < cs0

\* C3: FromString(u.String()) returns u and no error, for every UUID u a
\* constructor returned.
C3_RoundTrip ==
    \A p \in Procs :
        Returned(p) =>
            FromString(String(ret[p].uuid)) = [uuid |-> ret[p].uuid, err |-> "nil"]

\* Both goroutines have returned a UUID, one time-based and one name-based.
C3_Witness ==
    \E p, q \in Procs :
        /\ Returned(p) /\ ret[p].kind = "NewV2"
        /\ Returned(q) /\ ret[q].kind = "NewV3"

\* C4: FromBytes returns the size error iff len(b) # 16; otherwise the format
\* error iff the version nibble is outside 1..5 or the variant bits are not
\* 10; otherwise no error and a UUID equal to b.
C4_FromBytesClassifies ==
    out.kind = "FromBytes" =>
        LET b == inp.b
            badLayout == b[7] \div 16 \notin 1 .. 5 \/ b[9] \div 64 # 2
        IN  /\ (out.err = "ErrUUIDSize") <=> (Len(b) # uuidSize)
            /\ Len(b) = uuidSize => ((out.err = "ErrUUIDFormat") <=> badLayout)
            /\ out.err \notin {"ErrUUIDSize", "ErrUUIDFormat"} =>
                  out.err = "nil" /\ out.uuid = b

\* FromBytes of 16 zero bytes returned the format error.
C4_Witness ==
    /\ out.kind = "FromBytes"
    /\ inp.b = Zeros(uuidSize)
    /\ out.err = "ErrUUIDFormat"

\* C5: FromString fails with the format error, and no other, whenever the
\* text decodes to other than 16 bytes, or its version digit is outside 1..5,
\* or its variant digit is outside 8, 9, a, b.
C5_FromStringFormatError ==
    out.kind = "FromString" =>
        LET d == DecodeString(RemoveDashes(inp.s))
        IN  (d.err = "nil" /\ (\/ Len(d.b) # uuidSize
                               \/ d.b[7] \div 16 \notin 1 .. 5
                               \/ d.b[9] \div 64 # 2))
                => out.err = "ErrUUIDFormat"

\* C6: no call of a sequence of NewV1 calls, or of NewV2 calls, returns the
\* UUID an earlier call of the sequence returned.
C6_NoCollision ==
    (Returned(1) /\ first # NoRet /\ ret[1].n > first.n) =>
        ret[1].uuid # first.uuid

\* C7: two calls of NewV3, or of NewV5, with the same namespace and name
\* return the same bytes, whatever ran between them.
C7_Deterministic ==
    \A p, q \in Procs :
        (/\ Returned(p) /\ Returned(q)
         /\ ret[p].kind \in NameKinds
         /\ ret[p].call = ret[q].call)
            => ret[p].uuid = ret[q].uuid

\* Two goroutines returned from the same name-based call with a time-based
\* call, which advanced the clock sequence, begun besides.
C7_Witness ==
    \E p, q \in Procs :
        /\ p # q
        /\ Returned(p) /\ Returned(q)
        /\ ret[p].kind \in NameKinds
        /\ ret[p].call = ret[q].call
        /\ clockSeq # cs0

\* The constructor whose step goroutine p takes.
StepKind(p) == IF pc[p] = "idle" THEN call'[p].kind ELSE call[p].kind

\* C8 as stated: no goroutine in NewV3, NewV4 or NewV5 waits for or holds the
\* mutex.
C8_NoCoordination ==
    \A p \in Procs :
        call[p].kind \in {"NewV3", "NewV4", "NewV5"} =>
            pc[p] # "lock" /\ mu # p

\* C8, amended: a goroutine in NewV3 or NewV5 never waits for or holds the
\* mutex (it is only ever at its two steps, which wait for nothing), and its
\* steps leave mu, clockSeq, addr and timeSource unchanged; a goroutine in NewV4 does take the mutex
\* and set timeSource, and its steps leave clockSeq and addr unchanged.
C8_NameBasedUncoordinated ==
    [][\A p \in Procs :
          /\ (call[p].kind \in NameKinds) =>
                /\ pc[p] \in {"hash", "stamp"}
                /\ mu # p
          /\ (pc'[p] # pc[p] /\ StepKind(p) \in NameKinds) =>
                UNCHANGED <<mu, clockSeq, addr, timeSource>>
          /\ (pc'[p] # pc[p] /\ StepKind(p) = "NewV4") =>
                /\ UNCHANGED <<clockSeq, addr>>
                /\ pc[p] \in Locked => mu = p
                /\ pc[p] = "setSource" => timeSource' = "uuidRand"]_vars

\* A goroutine is inside NewV3 or NewV5 while another, inside NewV1 or NewV2,
\* holds the mutex, and a third call, NewV4, has returned before.
C8_Witness ==
    \E p, q \in Procs :
        /\ pc[p] = "stamp"
        /\ mu = q /\ call[q].kind \in TimeKinds
        /\ Returned(p) /\ ret[p].kind = "NewV4"

\* C9: variant(rfc4122) leaves the top two bits of byte 8 at 10 and its low
\* six bits as they were; variant(future) leaves the top three bits at 111
\* and the low five bits as they were; no other byte changes.
C9_VariantMasked ==
    (out.kind = "variant" /\ inp.v \in {rfc4122, future}) =>
        /\ inp.v = rfc4122 =>
              out.u[9] \div 64 = 2 /\ out.u[9] % 64 = inp.u[9] % 64
        /\ inp.v = future =>
              out.u[9] \div 32 = 7 /\ out.u[9] % 32 = inp.u[9] % 32
        /\ \A i \in 1 .. uuidSize : i # 9 => out.u[i] = inp.u[i]

\* variant(rfc4122) was applied to a buffer whose byte 8 was 0xFF.
C9_Witness ==
    /\ out.kind = "variant"
    /\ inp.v = rfc4122
    /\ inp.u[9] = 255
    /\ out.u[9] = 191

\* C10: after version(k), k in 1..5, the top nibble of byte 6 is k, its bottom
\* nibble is as before, and every other byte is unchanged.
C10_VersionStamped ==
    (out.kind = "version" /\ inp.v \in 1 .. 5) =>
        /\ out.u[7] \div 16 = inp.v
        /\ out.u[7] % 16 = inp.u[7] % 16
        /\ \A i \in 1 .. uuidSize : i # 7 => out.u[i] = inp.u[i]

\* version(5) was applied to a buffer whose byte 6 was 0xFF.
C10_Witness ==
    /\ out.kind = "version"
    /\ inp.v = 5
    /\ inp.u[7] = 255
    /\ out.u[7] = 95

\* C11: for every Unix time n in nanoseconds, uuidTime.timestamp() returns
\* floor(n / 100) + 122192928000000000, the number of 100-nanosecond
\* intervals since 1582-10-15T00:00:00Z.
C11_GregorianTicks ==
    out.kind = "uuidTime" => out.t = Add64(Div64(inp.n, 100), epochOffset)

\* C12: in every UUID NewV2 returns, time_low (bytes 0-3, big-endian) is the
\* caller's numeric user id.
C12_TimeLowIsUid ==
    \A p \in Procs :
        (Returned(p) /\ ret[p].kind = "NewV2") =>
            SubSeq(ret[p].uuid, 1, 4) = SubSeq(uid, 5, 8)

====
